---- MODULE Spec2Model ----
(***************************************************************************)
(* Model of the protochess board front end.                                *)
(*                                                                         *)
(*  - ChessGame (React component): the canvas board.  Its props, its       *)
(*    lifecycle hooks and its public methods are translated from the       *)
(*    component source.  The two static helpers it drives, Board and       *)
(*    PieceHandler, are not part of the available sources; their           *)
(*    operations are modelled from the written specification and are       *)
(*    flagged as such where they are defined.                              *)
(*  - _WebChess.svelte: the store-bound wrapper that keeps the             *)
(*    `highlighted` object in step with the MovesFrom and GameInfo stores. *)
(*  - the coordinate mapping (tile size, logical <-> screen) as pure       *)
(*    operators, exercised on their own by SpecMap.                        *)
(*                                                                         *)
(* Nullable props are encoded as options: <<>> is null, <<v>> is v.        *)
(* The canvas and board sizes used here divide evenly, so the JavaScript   *)
(* number division of the source coincides with \div.                      *)
(***************************************************************************)
EXTENDS Integers, Sequences, FiniteSets, TLC

VARIABLES
    props,          \* ChessGame.props: playerNum, inverted, gameState, width, height
    tileWidth,      \* ChessGame.tileWidth  (also handed to Board and PieceHandler)
    tileHeight,     \* ChessGame.tileHeight
    tileMap,        \* Board.tileMap: TileKey -> screen position of the tile object
    pieceMap,       \* PieceHandler.pieceMap: piece id -> piece record
    phInverted,     \* orientation PieceHandler was last loaded with
    lastMoveHL,     \* Board: last-move highlight layer (most recent marks, oldest first)
    previewHL,      \* Board: preview highlight layer, TileKey -> colour
    canvasTiles,    \* tile objects on the canvas, TileKey -> number of objects
    canvasPieces,   \* piece objects on the canvas, id -> number of objects
    canvasTexts,    \* winner texts on the canvas, in the order they were added
    outbox,         \* calls made to props.requestMove, in order
    rebuilds,       \* number of teardown-and-reload runs so far
    lastOp,         \* name of the operation that produced the current state
    steps,          \* number of operations performed so far
    pc,             \* _WebChess.svelte: position in the component script
    highlighted,    \* _WebChess.svelte: the `highlighted` object
    gameInfo,       \* current value of the GameInfo store
    movesFrom,      \* current value of the MovesFrom store
    webSent,        \* calls made to sendRequest, in order
    probe           \* coordinate-mapping probe (SpecMap)

chessVars == <<props, tileWidth, tileHeight, tileMap, pieceMap, phInverted,
               lastMoveHL, previewHL, canvasTiles, canvasPieces, canvasTexts,
               outbox, rebuilds>>
webVars == <<pc, highlighted, gameInfo, movesFrom, webSent>>
vars == <<chessVars, webVars, probe, lastOp, steps>>

-----------------------------------------------------------------------------
(* Value spaces *)

Null == <<>>
Some(v) == <<v>>

\* JavaScript truthiness of a nullable boolean: null is falsy.
Truthy(b) == b # Null /\ b[1]

Players == {0, 1}
Ids == {"p1", "p2"}

\* owner recorded on the Piece objects of the game
OwnerOf == [id \in Ids |-> IF id = "p1" THEN 0 ELSE 1]

\* props.width / props.height of the component
Canvas == [width |-> 4, height |-> 8]

\* GameState values the parent may pass: a 2 x 2 board with two pieces, or with one
GS1 == [board |-> [width |-> 2, height |-> 2],
        pieces |-> {[id |-> "p1", owner |-> 0, location |-> [x |-> 0, y |-> 0]],
                    [id |-> "p2", owner |-> 1, location |-> [x |-> 1, y |-> 1]]}]
GS2 == [board |-> [width |-> 2, height |-> 2],
        pieces |-> {[id |-> "p1", owner |-> 0, location |-> [x |-> 1, y |-> 0]]}]
GameStates == {GS1, GS2}

Squares(board) == {[x |-> i, y |-> j] : i \in 0..(board.width - 1), j \in 0..(board.height - 1)}
TileKey(x, y) == <<x, y>>

\* ColorConstants
LAST_MOVE_HIGHLIGHT_COLOR == "lastMove"

\* JavaScript's undefined (a missing number field) and NaN, encoded as integers
\* no size takes
Undefined == -2
NaN == -1

\* JavaScript number division as componentDidMount uses it: a missing divisor
\* gives NaN; the sizes used here divide evenly
JsDivide(a, b) == IF b = Undefined \/ a = NaN THEN NaN ELSE a \div b


-----------------------------------------------------------------------------
(* Coordinate mapping *)

\* tile size with the board's sides mixed up
TileSize_sidesSwapped(canvas, board) ==
    [width |-> JsDivide(canvas.width, board.height),
     height |-> JsDivide(canvas.height, board.width)]

\* ChessGame.componentDidMount: tile size from the canvas and the board
TileSize(canvas, board) ==
    [width |-> JsDivide(canvas.width, board.width),
     height |-> JsDivide(canvas.height, board.height)]

\* logical (x, y) -> screen (left, top); inverted runs rows and columns backwards
toScreen(inverted, board, tw, th, x, y) ==
    IF Truthy(inverted)
    THEN [left |-> (board.width - 1 - x) * tw, top |-> (board.height - 1 - y) * th]
    ELSE [left |-> x * tw, top |-> y * th]

\* Board.fabricPosToXY: screen (left, top) -> logical (x, y)
Board_fabricPosToXY(inverted, board, tw, th, left, top) ==
    LET col == left \div tw
        row == top \div th
    IN  IF Truthy(inverted)
        THEN [x |-> board.width - 1 - col, y |-> board.height - 1 - row]
        ELSE [x |-> col, y |-> row]

-----------------------------------------------------------------------------
(* Board (static helper): tiles and the two highlight layers *)

\* board size as Board knows it from Board.init(canvas, tileWidth, tileHeight)
Board_dims ==
    [width |-> Canvas.width \div tileWidth, height |-> Canvas.height \div tileHeight]

\* Board.loadBoard: one tile per square of the board, keyed by logical square,
\* drawn at the screen position the orientation gives it
Board_loadBoard(inverted, gameState) ==
    [k \in {TileKey(s.x, s.y) : s \in Squares(gameState.board)} |->
        toScreen(inverted, gameState.board, tileWidth, tileHeight, k[1], k[2])]

\* Board.deleteAll: removes from the canvas every tile object the tile map holds
Board_deleteAll(onCanvas, tm) ==
    [k \in DOMAIN onCanvas |->
        IF k \in DOMAIN tm /\ onCanvas[k] > 0 THEN onCanvas[k] - 1 ELSE onCanvas[k]]

\* canvas.add of every tile object of a freshly loaded tile map
Board_addAll(onCanvas, tm) ==
    [k \in DOMAIN onCanvas |-> IF k \in DOMAIN tm THEN onCanvas[k] + 1 ELSE onCanvas[k]]

\* the tile drawn where logical (x, y) lands under `inverted` (orientation-aware
\* lookup); the empty set when no such tile exists
Board_tileAt(tm, inverted, x, y) ==
    {k \in DOMAIN tm : tm[k] = toScreen(inverted, Board_dims, tileWidth, tileHeight, x, y)}

\* the most recent two entries of a highlight list
LastTwo(s) == IF Len(s) > 2 THEN SubSeq(s, Len(s) - 1, Len(s)) ELSE s

\* Board.updateBoardHighlight: marks a tile on the last-move layer; the layer
\* keeps the marks of one move (origin and destination), older marks are
\* overwritten; a square without a tile is ignored
Board_updateBoardHighlight(hl, tm, inverted, x, y, color) ==
    LET hit == Board_tileAt(tm, inverted, x, y)
    IN  IF hit = {} THEN hl
        ELSE LastTwo(Append(hl, [key |-> CHOOSE k \in hit : TRUE, color |-> color]))

\* Board.setHighlightColor: recolours a tile on the preview layer; a square
\* without a tile is ignored
Board_setHighlightColor(pv, tm, inverted, x, y, color) ==
    LET hit == Board_tileAt(tm, inverted, x, y)
    IN  IF hit = {} THEN pv
        ELSE [k \in (DOMAIN pv) \cup hit |-> IF k \in hit THEN color ELSE pv[k]]

-----------------------------------------------------------------------------
(* PieceHandler (static helper): piece records and their canvas objects *)

\* PieceHandler.deleteAllPieces, canvas side: removes every recorded piece object
PieceHandler_removeAll(onCanvas, pm) ==
    [id \in DOMAIN onCanvas |->
        IF id \in DOMAIN pm /\ onCanvas[id] > 0 THEN onCanvas[id] - 1 ELSE onCanvas[id]]

\* PieceHandler.deleteAllPieces, map side: no record is left
PieceHandler_deleteAllPieces(pm) == [id \in {} |-> 0]

\* PieceHandler.loadPieces: one record per piece of the game state, placed by the
\* orientation; only the pieces of the viewing player accept input
PieceHandler_loadPieces(pm, playerNum, inverted, gameState) ==
    LET loaded == {p.id : p \in gameState.pieces}
        pieceOf(id) == CHOOSE p \in gameState.pieces : p.id = id
        rec(p) ==
            LET pos == toScreen(inverted, gameState.board, tileWidth, tileHeight,
                                p.location.x, p.location.y)
            IN  [left |-> pos.left, top |-> pos.top, owner |-> p.owner,
                 locked |-> (Some(p.owner) # playerNum), location |-> p.location]
    IN  [id \in (DOMAIN pm) \cup loaded |->
            IF id \in loaded THEN rec(pieceOf(id)) ELSE pm[id]]

\* canvas.add of every loaded piece object
PieceHandler_addLoaded(onCanvas, gameState) ==
    [id \in DOMAIN onCanvas |->
        IF id \in {p.id : p \in gameState.pieces} THEN onCanvas[id] + 1 ELSE onCanvas[id]]

\* PieceHandler.updatePiece: moves the record of piece.id to piece.location, or
\* inserts a (locked) record when there is none
PieceHandler_updatePiece(pm, gameState, piece) ==
    LET pos == toScreen(phInverted, gameState.board, tileWidth, tileHeight,
                        piece.location.x, piece.location.y)
    IN  IF piece.id \in DOMAIN pm
        THEN [pm EXCEPT ![piece.id] =
                 [@ EXCEPT !.left = pos.left, !.top = pos.top,
                           !.location = piece.location]]
        ELSE [id \in (DOMAIN pm) \cup {piece.id} |->
                 IF id = piece.id
                 THEN [left |-> pos.left, top |-> pos.top, owner |-> piece.owner,
                       locked |-> TRUE, location |-> piece.location]
                 ELSE pm[id]]

\* PieceHandler.deletePiece: removes the record of piece.id; nothing to do when
\* there is none
PieceHandler_deletePiece(pm, piece) ==
    [id \in (DOMAIN pm) \ {piece.id} |-> pm[id]]

\* PieceHandler.lockAllPieces
PieceHandler_lockAllPieces(pm) ==
    [id \in DOMAIN pm |-> [pm[id] EXCEPT !.locked = TRUE]]

\* PieceHandler.unlockPieces
PieceHandler_unlockPieces(pm, playerNum) ==
    [id \in DOMAIN pm |-> [pm[id] EXCEPT !.locked = (pm[id].owner # playerNum)]]

-----------------------------------------------------------------------------
(* ChessGame: bounds and inputs *)

\* number of operations (prop updates, method calls, store events) explored
MaxSteps == 3

AllKeys == {TileKey(s.x, s.y) : s \in Squares(GS1.board)}

PropValues ==
    [playerNum : {Null} \cup {Some(n) : n \in Players},
     inverted : {Null, Some(TRUE), Some(FALSE)},
     gameState : GameStates]

\* Piece objects the server may push: any piece on any square of the board
PieceInputs ==
    {[id |-> i, owner |-> OwnerOf[i], location |-> sq] : i \in Ids, sq \in Squares(GS1.board)}

\* Piece objects deletePiece may be given: the above, and one whose id was never
\* inserted
DeleteInputs ==
    PieceInputs \cup {[id |-> "ghost", owner |-> 0, location |-> [x |-> 0, y |-> 0]]}

\* moves a drag release may ask for
RequestMoves == {[x |-> 1, y |-> 0, id |-> "p1"], [x |-> 0, y |-> 1, id |-> "p2"]}

\* the web wrapper and the mapping probe stand still while ChessGame runs
WebIdle ==
    /\ pc = "idle"
    /\ highlighted = [in_check_kings |-> "undefined", possibleMoves |-> "undefined",
                      lastTurn |-> "undefined"]
    /\ gameInfo = [in_check_kings |-> "k0", last_turn |-> "null", winner |-> "null"]
    /\ movesFrom = "null"
    /\ webSent = <<>>
ProbeIdle == probe = [stage |-> "idle"]

-----------------------------------------------------------------------------
(* ChessGame: lifecycle *)

\* componentDidMount: canvas set up, tile size computed, Board and PieceHandler
\* initialised; no tile and no piece is loaded here
componentDidMount(p) ==
    /\ props = p
    /\ tileWidth = TileSize(Canvas, p.gameState.board).width
    /\ tileHeight = TileSize(Canvas, p.gameState.board).height
    /\ tileMap = [k \in {} |-> 0]
    /\ pieceMap = [k \in {} |-> 0]
    /\ phInverted = Null
    /\ lastMoveHL = <<>>
    /\ previewHL = [k \in {} |-> 0]
    /\ canvasTiles = [k \in AllKeys |-> 0]
    /\ canvasPieces = [id \in Ids |-> 0]
    /\ canvasTexts = <<>>
    /\ outbox = <<>>
    /\ rebuilds = 0

\* the reload without the teardown calls
RebuildResult_noTeardown(pm, cp, ct, tm, p) ==
    LET tm1 == Board_loadBoard(p.inverted, p.gameState)
    IN  [tileMap |-> tm1,
         canvasTiles |-> Board_addAll(ct, tm1),
         pieceMap |-> PieceHandler_loadPieces(pm, p.playerNum, p.inverted, p.gameState),
         canvasPieces |-> PieceHandler_addLoaded(cp, p.gameState)]

\* the teardown and reload in the body of componentDidUpdate, as a function of
\* the maps and canvas contents it starts from: PieceHandler.deleteAllPieces(),
\* Board.deleteAll(), Board.loadBoard(...), PieceHandler.loadPieces(...)
RebuildResult(pm, cp, ct, tm, p) ==
    LET pieces0 == PieceHandler_deleteAllPieces(pm)
        cp0 == PieceHandler_removeAll(cp, pm)
        ct0 == Board_deleteAll(ct, tm)
        tm1 == Board_loadBoard(p.inverted, p.gameState)
    IN  [tileMap |-> tm1,
         canvasTiles |-> Board_addAll(ct0, tm1),
         pieceMap |-> PieceHandler_loadPieces(pieces0, p.playerNum, p.inverted, p.gameState),
         canvasPieces |-> PieceHandler_addLoaded(cp0, p.gameState)]

Rebuild(p) ==
    LET r == RebuildResult(pieceMap, canvasPieces, canvasTiles, tileMap, p)
    IN  /\ tileMap' = r.tileMap
        /\ canvasTiles' = r.canvasTiles
        /\ pieceMap' = r.pieceMap
        /\ canvasPieces' = r.canvasPieces
        /\ phInverted' = p.inverted
        /\ lastMoveHL' = <<>>
        /\ previewHL' = [k \in {} |-> 0]
        /\ rebuilds' = rebuilds + 1

\* componentDidUpdate without the comparison against prevProps.inverted
componentDidUpdate_everyRender(prevProps, p) ==
    IF /\ p.playerNum # Null
       /\ p.inverted # Null
    THEN Rebuild(p)
    ELSE UNCHANGED <<tileMap, canvasTiles, pieceMap, canvasPieces, phInverted,
                     lastMoveHL, previewHL, rebuilds>>

\* componentDidUpdate(prevProps), run with this.props = p
componentDidUpdate(prevProps, p) ==
    IF /\ p.playerNum # Null
       /\ p.inverted # Null
       /\ p.inverted # prevProps.inverted
    THEN Rebuild(p)
    ELSE UNCHANGED <<tileMap, canvasTiles, pieceMap, canvasPieces, phInverted,
                     lastMoveHL, previewHL, rebuilds>>

\* the parent renders the component with new props; React then runs
\* componentDidUpdate with the previous ones
Update(p) ==
    /\ props' = p
    /\ componentDidUpdate(props, p)
    /\ lastOp' = "componentDidUpdate"
    /\ UNCHANGED <<tileWidth, tileHeight, canvasTexts, outbox>>

-----------------------------------------------------------------------------
(* ChessGame: methods *)

\* the origin updatePiece derives for a recorded piece
oldXY(id) ==
    Board_fabricPosToXY(props.inverted, Board_dims, tileWidth, tileHeight,
                        pieceMap[id].left, pieceMap[id].top)

\* updatePiece that also drops whatever other record sits on the destination
updatePiece_capturing(piece) ==
    LET group == piece.id \in DOMAIN pieceMap
        kept == {id \in DOMAIN pieceMap :
                    id = piece.id \/ pieceMap[id].location # piece.location}
        pm0 == [id \in kept |-> pieceMap[id]]
    IN  /\ pieceMap' = PieceHandler_updatePiece(pm0, props.gameState, piece)
        /\ canvasPieces' = [id \in DOMAIN canvasPieces |->
                               IF id = piece.id /\ ~group THEN canvasPieces[id] + 1
                               ELSE IF id \in (DOMAIN pieceMap) \ kept
                                    THEN canvasPieces[id] - 1
                                    ELSE canvasPieces[id]]
        /\ lastMoveHL' = Board_updateBoardHighlight(lastMoveHL, tileMap, props.inverted,
                             piece.location.x, piece.location.y, LAST_MOVE_HIGHLIGHT_COLOR)
        /\ lastOp' = "updatePiece"
        /\ UNCHANGED <<props, tileWidth, tileHeight, tileMap, phInverted, previewHL,
                       canvasTiles, canvasTexts, outbox, rebuilds>>

updatePiece(piece) ==
    LET group == piece.id \in DOMAIN pieceMap
        hl1 == IF group
               THEN Board_updateBoardHighlight(lastMoveHL, tileMap, props.inverted,
                        oldXY(piece.id).x, oldXY(piece.id).y, LAST_MOVE_HIGHLIGHT_COLOR)
               ELSE lastMoveHL
    IN  /\ pieceMap' = PieceHandler_updatePiece(pieceMap, props.gameState, piece)
        /\ canvasPieces' = IF group THEN canvasPieces
                           ELSE [canvasPieces EXCEPT ![piece.id] = @ + 1]
        /\ lastMoveHL' = Board_updateBoardHighlight(hl1, tileMap, props.inverted,
                             piece.location.x, piece.location.y, LAST_MOVE_HIGHLIGHT_COLOR)
        /\ lastOp' = "updatePiece"
        /\ UNCHANGED <<props, tileWidth, tileHeight, tileMap, phInverted, previewHL,
                       canvasTiles, canvasTexts, outbox, rebuilds>>

\* deletePiece that tears every piece down
deletePiece_all(piece) ==
    /\ pieceMap' = PieceHandler_deleteAllPieces(pieceMap)
    /\ canvasPieces' = PieceHandler_removeAll(canvasPieces, pieceMap)
    /\ lastOp' = "deletePiece"
    /\ UNCHANGED <<props, tileWidth, tileHeight, tileMap, phInverted, lastMoveHL,
                   previewHL, canvasTiles, canvasTexts, outbox, rebuilds>>

deletePiece(piece) ==
    /\ pieceMap' = PieceHandler_deletePiece(pieceMap, piece)
    /\ canvasPieces' = IF piece.id \in DOMAIN pieceMap
                       THEN [canvasPieces EXCEPT ![piece.id] = @ - 1]
                       ELSE canvasPieces
    /\ lastOp' = "deletePiece"
    /\ UNCHANGED <<props, tileWidth, tileHeight, tileMap, phInverted, lastMoveHL,
                   previewHL, canvasTiles, canvasTexts, outbox, rebuilds>>

\* lockAllPieces that uses its argument: the pieces of playerNum stay as they are
lockAllPieces_sparingPlayer(playerNum) ==
    /\ pieceMap' = [id \in DOMAIN pieceMap |->
                       IF pieceMap[id].owner = playerNum THEN pieceMap[id]
                       ELSE [pieceMap[id] EXCEPT !.locked = TRUE]]
    /\ lastOp' = "lockAllPieces"
    /\ UNCHANGED <<props, tileWidth, tileHeight, tileMap, phInverted, lastMoveHL,
                   previewHL, canvasTiles, canvasPieces, canvasTexts, outbox, rebuilds>>

lockAllPieces(playerNum) ==
    /\ pieceMap' = PieceHandler_lockAllPieces(pieceMap)
    /\ lastOp' = "lockAllPieces"
    /\ UNCHANGED <<props, tileWidth, tileHeight, tileMap, phInverted, lastMoveHL,
                   previewHL, canvasTiles, canvasPieces, canvasTexts, outbox, rebuilds>>

\* unlockPieces that only unlocks and leaves the other pieces as they are
unlockPieces_withoutLocking(playerNum) ==
    /\ pieceMap' = [id \in DOMAIN pieceMap |->
                       IF pieceMap[id].owner = playerNum
                       THEN [pieceMap[id] EXCEPT !.locked = FALSE]
                       ELSE pieceMap[id]]
    /\ lastOp' = "unlockPieces"
    /\ UNCHANGED <<props, tileWidth, tileHeight, tileMap, phInverted, lastMoveHL,
                   previewHL, canvasTiles, canvasPieces, canvasTexts, outbox, rebuilds>>

unlockPieces(playerNum) ==
    /\ pieceMap' = PieceHandler_unlockPieces(pieceMap, playerNum)
    /\ lastOp' = "unlockPieces"
    /\ UNCHANGED <<props, tileWidth, tileHeight, tileMap, phInverted, lastMoveHL,
                   previewHL, canvasTiles, canvasPieces, canvasTexts, outbox, rebuilds>>

setTileHighlight(x, y, color) ==
    /\ previewHL' = Board_setHighlightColor(previewHL, tileMap, props.inverted, x, y, color)
    /\ lastOp' = "setTileHighlight"
    /\ UNCHANGED <<props, tileWidth, tileHeight, tileMap, pieceMap, phInverted,
                   lastMoveHL, canvasTiles, canvasPieces, canvasTexts, outbox, rebuilds>>

displayWinner(playerNum) ==
    /\ canvasTexts' = Append(canvasTexts, playerNum)
    /\ lastOp' = "displayWinner"
    /\ UNCHANGED <<props, tileWidth, tileHeight, tileMap, pieceMap, phInverted,
                   lastMoveHL, previewHL, canvasTiles, canvasPieces, outbox, rebuilds>>

\* requestMove that also moves the piece on the board before the server answers
requestMove_optimistic(move) ==
    /\ outbox' = Append(outbox, move)
    /\ pieceMap' = IF move.id \in DOMAIN pieceMap
                   THEN PieceHandler_updatePiece(pieceMap, props.gameState,
                            [id |-> move.id, owner |-> pieceMap[move.id].owner,
                             location |-> [x |-> move.x, y |-> move.y]])
                   ELSE pieceMap
    /\ lastOp' = "requestMove"
    /\ UNCHANGED <<props, tileWidth, tileHeight, tileMap, phInverted,
                   lastMoveHL, previewHL, canvasTiles, canvasPieces, canvasTexts, rebuilds>>

requestMove(move) ==
    /\ outbox' = Append(outbox, move)
    /\ lastOp' = "requestMove"
    /\ UNCHANGED <<props, tileWidth, tileHeight, tileMap, pieceMap, phInverted,
                   lastMoveHL, previewHL, canvasTiles, canvasPieces, canvasTexts, rebuilds>>

-----------------------------------------------------------------------------
(* ChessGame: specification *)

Init ==
    /\ \E p \in PropValues : componentDidMount(p)
    /\ WebIdle
    /\ ProbeIdle
    /\ lastOp = "componentDidMount"
    /\ steps = 0

Next ==
    /\ steps < MaxSteps
    /\ steps' = steps + 1
    /\ UNCHANGED <<webVars, probe>>
    /\ \/ \E p \in PropValues : Update(p)
       \/ \E piece \in PieceInputs : updatePiece(piece)
       \/ \E piece \in DeleteInputs : deletePiece(piece)
       \/ \E n \in Players : lockAllPieces(n)
       \/ \E n \in Players : unlockPieces(n)
       \/ \E sq \in Squares(GS1.board) : setTileHighlight(sq.x, sq.y, "preview")
       \/ \E n \in Players : displayWinner(n)
       \/ \E move \in RequestMoves : requestMove(move)

Spec == Init /\ [][Next]_vars

-----------------------------------------------------------------------------
(* _WebChess.svelte: the store-bound wrapper *)

\* values the stores may hold; "null" and "undefined" are the JavaScript values
MovesFromValues == {"null", "m1", "m2"}
GameInfoValues ==
    [in_check_kings : {"k0", "k1"}, last_turn : {"null", "t1", "t2"},
     winner : {"null", "0"}]
RequestDetails == {"d1", "d2"}

\* MovesFrom callback that keeps the last-turn highlight
MovesFromSubscriber_keepsLastTurn(h, e) ==
    [h EXCEPT !.possibleMoves = e]

\* callback given to MovesFrom.subscribe
MovesFromSubscriber(h, e) ==
    [h EXCEPT !.lastTurn = "null", !.possibleMoves = e]

\* GameInfo callback that updates the object in place and keeps the preview
GameInfoSubscriber_inPlace(h, v) ==
    [h EXCEPT !.in_check_kings = v.in_check_kings, !.lastTurn = v.last_turn]

\* callback given to GameInfo.subscribe
GameInfoSubscriber(h, v) ==
    [in_check_kings |-> v.in_check_kings, possibleMoves |-> "null",
     lastTurn |-> v.last_turn]

\* ChessGame stands still while the wrapper runs
ChessIdle ==
    componentDidMount([playerNum |-> Null, inverted |-> Null, gameState |-> GS1])

\* the script starts with highlighted = {} and the stores at some value
InitWeb ==
    /\ pc = "subscribeMovesFrom"
    /\ highlighted = [in_check_kings |-> "undefined", possibleMoves |-> "undefined",
                      lastTurn |-> "undefined"]
    /\ gameInfo \in GameInfoValues
    /\ movesFrom \in MovesFromValues
    /\ webSent = <<>>
    /\ ChessIdle
    /\ ProbeIdle
    /\ lastOp = "script"
    /\ steps = 0

\* MovesFrom.subscribe(...): a store calls a new subscriber at once with its value
SubscribeMovesFrom ==
    /\ pc = "subscribeMovesFrom"
    /\ highlighted' = MovesFromSubscriber(highlighted, movesFrom)
    /\ pc' = "subscribeGameInfo"
    /\ lastOp' = "MovesFrom.subscribe"
    /\ UNCHANGED <<gameInfo, movesFrom, webSent>>

\* GameInfo.subscribe(...)
SubscribeGameInfo ==
    /\ pc = "subscribeGameInfo"
    /\ highlighted' = GameInfoSubscriber(highlighted, gameInfo)
    /\ pc' = "mounted"
    /\ lastOp' = "GameInfo.subscribe"
    /\ UNCHANGED <<gameInfo, movesFrom, webSent>>

\* the MovesFrom store is set to e
MovesFromEvent(e) ==
    /\ pc = "mounted"
    /\ movesFrom' = e
    /\ highlighted' = MovesFromSubscriber(highlighted, e)
    /\ lastOp' = "MovesFrom"
    /\ UNCHANGED <<pc, gameInfo, webSent>>

\* the GameInfo store is set to v
GameInfoEvent(v) ==
    /\ pc = "mounted"
    /\ gameInfo' = v
    /\ highlighted' = GameInfoSubscriber(highlighted, v)
    /\ lastOp' = "GameInfo"
    /\ UNCHANGED <<pc, movesFrom, webSent>>

\* on:gameRequest of the Board component
handleGameRequest(detail) ==
    /\ pc = "mounted"
    /\ webSent' = Append(webSent, detail)
    /\ lastOp' = "handleGameRequest"
    /\ UNCHANGED <<pc, highlighted, gameInfo, movesFrom>>

\* number of store events and requests explored once the script has run
MaxWebEvents == 3

NextWeb ==
    /\ UNCHANGED <<chessVars, probe>>
    /\ \/ SubscribeMovesFrom /\ UNCHANGED steps
       \/ SubscribeGameInfo /\ UNCHANGED steps
       \/ /\ steps < MaxWebEvents
          /\ steps' = steps + 1
          /\ \/ \E e \in MovesFromValues : MovesFromEvent(e)
             \/ \E v \in GameInfoValues : GameInfoEvent(v)
             \/ \E d \in RequestDetails : handleGameRequest(d)

SpecWeb == InitWeb /\ [][NextWeb]_vars

-----------------------------------------------------------------------------
(* The coordinate mapping on its own *)

\* canvas and board sizes probed; every canvas divides evenly into its tiles
MapCases ==
    {[canvas |-> [width |-> 800, height |-> 800], board |-> [width |-> 8, height |-> 8]],
     [canvas |-> [width |-> 12, height |-> 12], board |-> [width |-> 3, height |-> 2]],
     [canvas |-> [width |-> 4, height |-> 8], board |-> [width |-> 2, height |-> 2]]}

InitMap ==
    /\ \E c \in MapCases, inv \in {Null, Some(TRUE), Some(FALSE)} :
         \E sq \in Squares(c.board) :
            probe = [stage |-> "input", canvas |-> c.canvas, board |-> c.board,
                     inverted |-> inv, x |-> sq.x, y |-> sq.y,
                     tw |-> 0, th |-> 0, left |-> 0, top |-> 0, bx |-> 0, by |-> 0]
    /\ ChessIdle
    /\ WebIdle
    /\ lastOp = "probe"
    /\ steps = 0

\* componentDidMount's tile size
MapTileSize ==
    /\ probe.stage = "input"
    /\ probe' = [probe EXCEPT !.stage = "sized",
                              !.tw = TileSize(probe.canvas, probe.board).width,
                              !.th = TileSize(probe.canvas, probe.board).height]

\* placing a piece at its logical square
MapToScreen ==
    /\ probe.stage = "sized"
    /\ LET pos == toScreen(probe.inverted, probe.board, probe.tw, probe.th,
                           probe.x, probe.y)
       IN  probe' = [probe EXCEPT !.stage = "screen", !.left = pos.left, !.top = pos.top]

\* reading the square back from the screen position
MapToLogical ==
    /\ probe.stage = "screen"
    /\ LET xy == Board_fabricPosToXY(probe.inverted, probe.board, probe.tw, probe.th,
                                     probe.left, probe.top)
       IN  probe' = [probe EXCEPT !.stage = "logical", !.bx = xy.x, !.by = xy.y]

NextMap ==
    /\ UNCHANGED <<chessVars, webVars, lastOp, steps>>
    /\ \/ MapTileSize
       \/ MapToScreen
       \/ MapToLogical

SpecMap == InitMap /\ [][NextMap]_vars

-----------------------------------------------------------------------------
(* componentDidMount on its own, snapshots with a missing board size included *)

\* canvas sizes and board sides mounted; a side may be missing from the snapshot
MountCanvases ==
    {[width |-> 800, height |-> 800], [width |-> 24, height |-> 24],
     [width |-> 8, height |-> 16]}
MountSides == {Undefined, 1, 2, 4, 8}

\* the component is constructed (tileWidth = tileHeight = 0) and not yet mounted
InitMount ==
    /\ \E c \in MountCanvases, w \in MountSides, h \in MountSides :
          probe = [stage |-> "constructed", canvas |-> c,
                   board |-> [width |-> w, height |-> h],
                   tw |-> 0, th |-> 0, boardInit |-> FALSE, pieceHandlerInit |-> FALSE]
    /\ ChessIdle
    /\ WebIdle
    /\ lastOp = "constructor"
    /\ steps = 0

\* componentDidMount: the tile size is computed and handed to Board.init and
\* PieceHandler.init; nothing is checked and nothing is thrown on the way
MountComponent ==
    /\ probe.stage = "constructed"
    /\ probe' = [probe EXCEPT !.stage = "mounted",
                              !.tw = TileSize(probe.canvas, probe.board).width,
                              !.th = TileSize(probe.canvas, probe.board).height,
                              !.boardInit = TRUE,
                              !.pieceHandlerInit = TRUE]
    /\ lastOp' = "componentDidMount"

NextMount ==
    /\ UNCHANGED <<chessVars, webVars, steps>>
    /\ MountComponent

SpecMount == InitMount /\ [][NextMount]_vars

-----------------------------------------------------------------------------
(* Claims about ChessGame *)

\* tiles that carry the last-move highlight colour
LastMoveTiles ==
    {lastMoveHL[i].key : i \in {j \in 1..Len(lastMoveHL) :
                                   lastMoveHL[j].color = LAST_MOVE_HIGHLIGHT_COLOR}}

\* C1: at most two tiles carry the last-move colour, and after every updatePiece
\* they are exactly the origin (the square the piece was recorded at, if it had a
\* record) and the destination of that move.
C1_LastMoveIsOriginAndDestination ==
    [][\A piece \in PieceInputs :
          updatePiece(piece) =>
             /\ Cardinality(LastMoveTiles') <= 2
             /\ LastMoveTiles' =
                   (IF piece.id \in DOMAIN pieceMap
                    THEN {TileKey(pieceMap[piece.id].location.x,
                                  pieceMap[piece.id].location.y)}
                    ELSE {})
                   \cup {TileKey(piece.location.x, piece.location.y)}]_vars

\* C2: after unlockPieces(n) every record owned by n is unlocked and every other
\* record is locked.
C2_UnlockByOwner ==
    [][\A n \in Players :
          unlockPieces(n) =>
             \A id \in DOMAIN pieceMap' :
                pieceMap'[id].locked = (pieceMap'[id].owner # n)]_vars

\* C2 witness: unlockPieces has just run on a board holding a piece of each
\* player, one now unlocked and one locked.
C2_Witness ==
    /\ lastOp = "unlockPieces"
    /\ DOMAIN pieceMap = Ids
    /\ \E id \in Ids : ~pieceMap[id].locked
    /\ \E id \in Ids : pieceMap[id].locked

\* C3: after lockAllPieces(n), whatever n, every record is locked, and the set of
\* records and their locations are as before.
C3_LockAll ==
    [][\A n \in Players :
          lockAllPieces(n) =>
             /\ DOMAIN pieceMap' = DOMAIN pieceMap
             /\ \A id \in DOMAIN pieceMap :
                   /\ pieceMap'[id].locked
                   /\ pieceMap'[id].location = pieceMap[id].location
                   /\ pieceMap'[id].left = pieceMap[id].left
                   /\ pieceMap'[id].top = pieceMap[id].top
                   /\ pieceMap'[id].owner = pieceMap[id].owner]_vars

\* C3 witness: lockAllPieces has just run on a board holding a piece of each
\* player.
C3_Witness ==
    /\ lastOp = "lockAllPieces"
    /\ DOMAIN pieceMap = Ids
    /\ \A id \in Ids : pieceMap[id].locked

\* C4: a prop update that leaves inverted as it was tears nothing down and
\* rebuilds nothing: records, tiles, highlights and locks stay as they are.
C4_SameOrientationNoRebuild ==
    [][\A p \in PropValues :
          (Update(p) /\ p.inverted = props.inverted) =>
             UNCHANGED <<pieceMap, tileMap, lastMoveHL, previewHL, canvasTiles,
                         canvasPieces, rebuilds>>]_vars

\* C4 witness: a prop update with both playerNum and inverted set has just left a
\* built board with its pieces, a last-move highlight and a preview highlight.
C4_Witness ==
    /\ lastOp = "componentDidUpdate"
    /\ props.playerNum # Null
    /\ props.inverted # Null
    /\ props.inverted = phInverted
    /\ lastMoveHL # <<>>
    /\ pieceMap # <<>>

\* C5: deletePiece removes exactly the record of a present id, and changes
\* nothing when the id has no record.
C5_DeletePiece ==
    [][\A piece \in DeleteInputs :
          deletePiece(piece) =>
             /\ DOMAIN pieceMap' = (DOMAIN pieceMap) \ {piece.id}
             /\ \A id \in DOMAIN pieceMap' : pieceMap'[id] = pieceMap[id]
             /\ UNCHANGED <<tileMap, lastMoveHL, previewHL, canvasTiles>>
             /\ piece.id \notin DOMAIN pieceMap => UNCHANGED <<pieceMap, canvasPieces>>]_vars

\* C5 witness: deletePiece has just run and both pieces of the game are still
\* recorded on a built board, so the id it was given had no record.
C5_Witness ==
    /\ lastOp = "deletePiece"
    /\ DOMAIN pieceMap = Ids
    /\ DOMAIN tileMap = AllKeys

\* C6: the mapping round-trips on every square for both orientations, and the
\* origin updatePiece derives from a recorded piece's screen position is the
\* square the piece was last placed at.
C6_OriginIsLastPlacement ==
    /\ \A inv \in {Some(TRUE), Some(FALSE)}, sq \in Squares(Board_dims) :
          LET pos == toScreen(inv, Board_dims, tileWidth, tileHeight, sq.x, sq.y)
          IN  Board_fabricPosToXY(inv, Board_dims, tileWidth, tileHeight,
                                  pos.left, pos.top) = sq
    /\ \A id \in DOMAIN pieceMap : oldXY(id) = pieceMap[id].location

\* C8: requestMove hands the move as it is to props.requestMove, once, and
\* changes nothing else; records, tiles and highlights change only in the steps
\* that apply an update (updatePiece, deletePiece, lock, unlock, a highlight, a
\* prop update).
C8_RequestOnlyForwards ==
    [][/\ \A move \in RequestMoves :
             requestMove(move) =>
                /\ outbox' = Append(outbox, move)
                /\ UNCHANGED <<pieceMap, tileMap, lastMoveHL, previewHL, canvasTiles,
                               canvasPieces, canvasTexts, props>>
       /\ <<pieceMap, tileMap, lastMoveHL, previewHL>>' # <<pieceMap, tileMap, lastMoveHL, previewHL>>
             => lastOp' \in {"updatePiece", "deletePiece", "lockAllPieces", "unlockPieces",
                             "setTileHighlight", "componentDidUpdate"}]_vars

\* C8 witness: requestMove has just run for a piece that is recorded on a built
\* board; the request is in the outbox and the piece is where it was loaded.
C8_Witness ==
    /\ lastOp = "requestMove"
    /\ Len(outbox) = 1
    /\ outbox[1].id \in DOMAIN pieceMap
    /\ pieceMap[outbox[1].id].location # [x |-> outbox[1].x, y |-> outbox[1].y]
    /\ rebuilds = 1

\* C9: the teardown and reload is idempotent: run a second time with the same
\* props on its own result it yields the same records, tiles and canvas objects,
\* one record per piece of the game state and one canvas object per tile and piece.
C9_InitializeIdempotent ==
    \A p \in PropValues :
       (p.playerNum # Null /\ p.inverted # Null) =>
          LET r1 == RebuildResult(pieceMap, canvasPieces, canvasTiles, tileMap, p)
              r2 == RebuildResult(r1.pieceMap, r1.canvasPieces, r1.canvasTiles,
                                  r1.tileMap, p)
          IN  /\ r2 = r1
              /\ DOMAIN r1.pieceMap = {q.id : q \in p.gameState.pieces}
              /\ DOMAIN r1.tileMap =
                    {TileKey(sq.x, sq.y) : sq \in Squares(p.gameState.board)}
              /\ \A k \in DOMAIN r1.canvasTiles :
                    r1.canvasTiles[k] = IF k \in DOMAIN r1.tileMap THEN 1 ELSE 0
              /\ \A id \in DOMAIN r1.canvasPieces :
                    r1.canvasPieces[id] = IF id \in DOMAIN r1.pieceMap THEN 1 ELSE 0

\* C9 witness: two teardown-and-reload runs in a row have left a built board
\* whose pieces are the pieces of the game state.
C9_Witness ==
    /\ lastOp = "componentDidUpdate"
    /\ rebuilds = 2
    /\ steps = 2
    /\ DOMAIN tileMap = AllKeys
    /\ DOMAIN pieceMap = {q.id : q \in props.gameState.pieces}

\* the piece records are exactly the pieces of game state gs, each at its
\* location and drawn where orientation inv puts it
PiecesAre(pm, gs, inv) ==
    /\ DOMAIN pm = {q.id : q \in gs.pieces}
    /\ \A q \in gs.pieces :
          /\ pm[q.id].location = q.location
          /\ [left |-> pm[q.id].left, top |-> pm[q.id].top] =
                toScreen(inv, gs.board, tileWidth, tileHeight, q.location.x, q.location.y)

\* the tiles are exactly the squares of the board of gs, drawn where orientation
\* inv puts them
TilesAre(tm, gs, inv) ==
    /\ DOMAIN tm = {TileKey(sq.x, sq.y) : sq \in Squares(gs.board)}
    /\ \A k \in DOMAIN tm :
          tm[k] = toScreen(inv, gs.board, tileWidth, tileHeight, k[1], k[2])

\* every record and every tile has one object on the canvas, and nothing else is
\* on it
CanvasMatches(pm, tm, cp, ct) ==
    /\ \A id \in DOMAIN cp : cp[id] = IF id \in DOMAIN pm THEN 1 ELSE 0
    /\ \A k \in DOMAIN ct : ct[k] = IF k \in DOMAIN tm THEN 1 ELSE 0

\* C12: a prop update that changes inverted to another orientation tears
\* everything down and reloads: afterwards the records are exactly the pieces of
\* the supplied game state, the tiles exactly the squares of its board, both
\* drawn for the new orientation, and no object from before is left on the canvas.
C12_OrientationChangeRebuilds ==
    [][\A p \in PropValues :
          (Update(p) /\ p.inverted # Null /\ p.inverted # props.inverted) =>
             /\ PiecesAre(pieceMap', p.gameState, p.inverted)
             /\ TilesAre(tileMap', p.gameState, p.inverted)
             /\ CanvasMatches(pieceMap', tileMap', canvasPieces', canvasTiles')]_vars

\* C13: a prop update that delivers the game state of a new session to a board
\* built for the current props, orientation unchanged, rebuilds too: afterwards
\* records, tiles and tile size are those of the new game state.
C13_NewSessionRebuilds ==
    [][\A p \in PropValues :
          (/\ Update(p)
           /\ rebuilds >= 1
           /\ props.playerNum # Null
           /\ props.inverted = phInverted
           /\ p.playerNum = props.playerNum
           /\ p.inverted = props.inverted
           /\ p.gameState # props.gameState) =>
             /\ PiecesAre(pieceMap', p.gameState, p.inverted)
             /\ TilesAre(tileMap', p.gameState, p.inverted)
             /\ tileWidth' = TileSize(Canvas, p.gameState.board).width
             /\ tileHeight' = TileSize(Canvas, p.gameState.board).height]_vars

\* C14: no two piece records hold the same logical location, whatever sequence
\* of loads, moves, deletions and orientation changes came before, a move onto
\* an occupied square included.
C14_NoDuplicateOccupants ==
    \A a \in DOMAIN pieceMap, b \in DOMAIN pieceMap :
       a # b => pieceMap[a].location # pieceMap[b].location

\* C15: updatePiece for an id that has a record moves that record to
\* piece.location, adds and removes no id, and marks the prior location and the
\* destination; for an id without a record it inserts one record at
\* piece.location and marks the destination only, no origin.
C15_UpdateOrInsert ==
    [][\A piece \in PieceInputs :
          updatePiece(piece) =>
             LET dest == TileKey(piece.location.x, piece.location.y)
             IN  /\ pieceMap'[piece.id].location = piece.location
                 /\ \A id \in (DOMAIN pieceMap) \ {piece.id} : pieceMap'[id] = pieceMap[id]
                 /\ dest \in LastMoveTiles'
                 /\ IF piece.id \in DOMAIN pieceMap
                    THEN /\ DOMAIN pieceMap' = DOMAIN pieceMap
                         /\ TileKey(pieceMap[piece.id].location.x,
                                    pieceMap[piece.id].location.y) \in LastMoveTiles'
                    ELSE /\ DOMAIN pieceMap' = (DOMAIN pieceMap) \cup {piece.id}
                         /\ LastMoveTiles' \subseteq LastMoveTiles \cup {dest}]_vars

\* C16: a record goes absent -> present -> absent.  It appears only through a
\* load or an inserting updatePiece, disappears only through deletePiece for its
\* id or a full teardown, and its lock flag changes only through lock, unlock or
\* a load; updatePiece, lockAllPieces, unlockPieces, setTileHighlight,
\* displayWinner and requestMove never remove a record.
C16_RecordLifeCycle ==
    [][LET teardown == lastOp' = "componentDidUpdate" /\ rebuilds' = rebuilds + 1
       IN  /\ \A id \in DOMAIN pieceMap :
                 id \notin DOMAIN pieceMap' =>
                    \/ \E piece \in DeleteInputs : piece.id = id /\ deletePiece(piece)
                    \/ teardown
           /\ \A id \in DOMAIN pieceMap' :
                 id \notin DOMAIN pieceMap =>
                    \/ \E piece \in PieceInputs : piece.id = id /\ updatePiece(piece)
                    \/ teardown
           /\ \A id \in (DOMAIN pieceMap) \cap (DOMAIN pieceMap') :
                 pieceMap'[id].locked # pieceMap[id].locked =>
                    \/ lastOp' \in {"lockAllPieces", "unlockPieces"}
                    \/ teardown
           /\ lastOp' \in {"updatePiece", "lockAllPieces", "unlockPieces",
                           "setTileHighlight", "displayWinner", "requestMove"}
                 => DOMAIN pieceMap \subseteq DOMAIN pieceMap']_vars

\* C16 witness: both pieces of the game were loaded by a rebuild and deletePiece
\* has then removed the record of p2, the record of p1 staying.
C16_Witness ==
    /\ lastOp = "deletePiece"
    /\ steps = 2
    /\ rebuilds = 1
    /\ props.gameState = GS1
    /\ DOMAIN pieceMap = {"p1"}
    /\ canvasPieces = [id \in Ids |-> IF id = "p1" THEN 1 ELSE 0]

\* C17: displayWinner is idempotent: called again with a player number it was
\* already called with it leaves the canvas as it was, with a single winner text
\* for that player, and it never changes a record, a lock flag or a highlight.
C17_DisplayWinnerIdempotent ==
    [][\A n \in Players :
          displayWinner(n) =>
             /\ UNCHANGED <<pieceMap, tileMap, lastMoveHL, previewHL, canvasTiles,
                            canvasPieces>>
             /\ Cardinality({i \in 1..Len(canvasTexts') : canvasTexts'[i] = n}) = 1
             /\ (\E i \in 1..Len(canvasTexts) : canvasTexts[i] = n)
                   => canvasTexts' = canvasTexts]_vars

\* C19: after any sequence of prop updates, whenever playerNum and inverted are
\* both non-null the tiles and the piece records have been built for the current
\* value of inverted; a change of inverted that arrived while playerNum was null
\* is not lost once playerNum is set.
C19_BuiltForCurrentOrientation ==
    (/\ lastOp = "componentDidUpdate"
     /\ props.playerNum # Null
     /\ props.inverted # Null) =>
        /\ rebuilds >= 1
        /\ phInverted = props.inverted
        /\ TilesAre(tileMap, props.gameState, props.inverted)
        /\ \A id \in DOMAIN pieceMap :
              [left |-> pieceMap[id].left, top |-> pieceMap[id].top] =
                 toScreen(props.inverted, props.gameState.board, tileWidth, tileHeight,
                          pieceMap[id].location.x, pieceMap[id].location.y)

-----------------------------------------------------------------------------
(* Claims about mounting *)

\* C11: a snapshot whose board.width or board.height is missing makes
\* initialization fail with a configuration error: mounting does not complete,
\* and Board and PieceHandler are never initialised with a tile width or tile
\* height that is not a number.
C11_MissingBoardSizeFailsFast ==
    /\ (probe.board.width = Undefined \/ probe.board.height = Undefined)
          => probe.stage # "mounted"
    /\ (probe.boardInit \/ probe.pieceHandlerInit)
          => (probe.tw # NaN /\ probe.th # NaN)

-----------------------------------------------------------------------------
(* Claims about the store-bound wrapper *)

C18_HighlightReset ==
    [][/\ \A v \in GameInfoValues :
             (GameInfoEvent(v) \/ (SubscribeGameInfo /\ gameInfo = v)) =>
                highlighted' = [in_check_kings |-> v.in_check_kings,
                                possibleMoves |-> "null",
                                lastTurn |-> v.last_turn]
       /\ \A e \in MovesFromValues :
             (MovesFromEvent(e) \/ (SubscribeMovesFrom /\ movesFrom = e)) =>
                /\ highlighted'.possibleMoves = e
                /\ highlighted'.lastTurn = "null"
                /\ highlighted'.in_check_kings = highlighted.in_check_kings]_vars

\* C18 witness: a GameInfo event has arrived while a move preview was held in
\* the MovesFrom store, and highlighted now shows the event's last turn and
\* checked kings and no preview.
C18_Witness ==
    /\ lastOp = "GameInfo"
    /\ steps = 2
    /\ movesFrom \in {"m1", "m2"}
    /\ highlighted = [in_check_kings |-> "k1", possibleMoves |-> "null",
                      lastTurn |-> "t2"]
    /\ gameInfo.in_check_kings = "k1"
    /\ gameInfo.last_turn = "t2"

\* C20: once the script has subscribed, highlighted.possibleMoves and
\* highlighted.lastTurn are never both non-null, whatever MovesFrom and GameInfo
\* events arrive in whatever order; the most recent event decides which of the
\* two is shown.
C20_NeverBothHighlights ==
    /\ pc # "subscribeMovesFrom" =>
          (highlighted.possibleMoves = "null" \/ highlighted.lastTurn = "null")
    /\ lastOp \in {"MovesFrom", "MovesFrom.subscribe"} =>
          (highlighted.lastTurn = "null" /\ highlighted.possibleMoves = movesFrom)
    /\ lastOp \in {"GameInfo", "GameInfo.subscribe"} =>
          (highlighted.possibleMoves = "null" /\ highlighted.lastTurn = gameInfo.last_turn)

\* C20 witness: after three store events, the last a MovesFrom event, a preview
\* is shown and the last turn the GameInfo store still holds is not.
C20_Witness ==
    /\ steps = 3
    /\ lastOp = "MovesFrom"
    /\ gameInfo.last_turn = "t1"
    /\ highlighted.possibleMoves = "m2"
    /\ highlighted.lastTurn = "null"
    /\ highlighted.in_check_kings = "k1"

-----------------------------------------------------------------------------
(* Claims about the coordinate mapping *)

\* C10: the tile size is canvas width / board width by canvas height / board
\* height; a piece at (x, y) is placed at (x * tileWidth, y * tileHeight), or at
\* ((W - 1 - x) * tileWidth, (H - 1 - y) * tileHeight) when inverted; an 8 x 8
\* board on an 800 x 800 canvas has 100 x 100 tiles and puts (0, 0) at (0, 0),
\* inverted at (700, 700).
C10_TileSizeAndPlacement ==
    LET W == probe.board.width
        H == probe.board.height
        inv == probe.inverted = Some(TRUE)
    IN  /\ probe.stage \in {"sized", "screen", "logical"} =>
             /\ probe.tw * W = probe.canvas.width
             /\ probe.th * H = probe.canvas.height
        /\ probe.stage \in {"screen", "logical"} =>
             /\ probe.left * W =
                   (IF inv THEN W - 1 - probe.x ELSE probe.x) * probe.canvas.width
             /\ probe.top * H =
                   (IF inv THEN H - 1 - probe.y ELSE probe.y) * probe.canvas.height
             /\ (W = 8 /\ H = 8 /\ probe.canvas.width = 800 /\ probe.canvas.height = 800
                 /\ probe.x = 0 /\ probe.y = 0) =>
                   /\ probe.tw = 100 /\ probe.th = 100
                   /\ probe.left = (IF inv THEN 700 ELSE 0)
                   /\ probe.top = (IF inv THEN 700 ELSE 0)

\* C10 witness: the piece at (0, 0) of an 8 x 8 board on an 800 x 800 canvas has
\* been placed inverted at (700, 700).
C10_Witness ==
    /\ probe.stage = "screen"
    /\ probe.board = [width |-> 8, height |-> 8]
    /\ probe.canvas = [width |-> 800, height |-> 800]
    /\ probe.inverted = Some(TRUE)
    /\ probe.x = 0 /\ probe.y = 0
    /\ probe.left = 700 /\ probe.top = 700

====
